---- MODULE Spec2Model ----
(***************************************************************************)
(* Backtesting engines of NLP-backtest.                                    *)
(*                                                                         *)
(*   Backtester.run                          (src/backtester.py)           *)
(*   PortfolioBacktester.run_sector_strategy (src/portfolio_backtester.py) *)
(*                                                                         *)
(* Units.  Prices are positive integers.  Every fraction of the source     *)
(* (threshold, stop_loss, take_profit, drop_pct, allocation_per_trade) is  *)
(* held in whole percent, so 5 stands for 0.05, and a comparison           *)
(* a/b - 1 <= -t is evaluated exactly as (a - b) * 100 <= -t * b.  The     *)
(* prices and thresholds drawn below keep every such comparison either     *)
(* exactly representable in binary floating point or away from its         *)
(* boundary, so the exact comparison and the float comparison agree.       *)
(* A value that is None in the source is the empty tuple, a present value  *)
(* x is <<x>>.  Rows are indexed from 0 as in the source.                  *)
(***************************************************************************)
EXTENDS Integers, Sequences, FiniteSets, TLC

VARIABLES
    pc,            \* "start", "run" (Backtester.run); "sector_start", "exits",
                   \* "entries", "admit" (run_sector_strategy); "done";
                   \* "error_no_symbol", "error_no_data", "error_no_sector"
                   \* (a ValueError raised to the caller)
    \* ---- Backtester.run ----
    closes,        \* the "close" column of the rows of SYMBOL in self.data
    dates,         \* the "date" column of the rows of SYMBOL in self.data
    strategy,      \* the strategy argument (entry rule, optional exit rule)
    i,             \* loop index of "for i in range(len(df))": rows processed so far
    position,      \* 0 flat, +1 long, -1 short
    side,          \* +1 / -1 while open, 0 when flat
    entry_idx,     \* None or <<row index>>
    entry_price,   \* None or <<price>>
    entry_date,    \* None or <<date>>
    ledger,        \* list of closed trades
    bt_positions,  \* the list "positions": position after each processed row
    bt_equity,     \* df["equity"] (as fractions), filled after the loop
    \* ---- PortfolioBacktester.run_sector_strategy ----
    panel,         \* rows of sector SECTOR in self.data: [symbol, date index] -> row
    params,        \* sector_name, drop_pct, lookback_days, allocation_per_trade,
                   \* stop_loss, take_profit
    d,             \* number of dates of "for date in dates" processed so far
    cash,
    positions,     \* dict symbol -> position, kept in insertion order
    trades,        \* list of closed trades
    equity_curve,  \* list of equity points
    todo,          \* rows of candidates.head(max_new) not yet iterated
    \* ---- ReportGenerator ----
    rg_trades,     \* self.trades: None or <<frame>>
    metrics        \* None, or <<the dict _extra_metrics_from_trades returned>>

bt_vars == <<closes, dates, strategy, i, position, side, entry_idx, entry_price,
             entry_date, ledger, bt_positions, bt_equity>>
pf_vars == <<panel, params, d, cash, positions, trades, equity_curve, todo>>
rg_vars == <<rg_trades, metrics>>
vars == <<pc, bt_vars, pf_vars, rg_vars>>

None == <<>>
Some(x) == <<x>>

(***************************************************************************)
(* Bounds of the model.                                                    *)
(***************************************************************************)
NumRows == 5        \* rows of the single-instrument series
Prices == {94, 100, 103}
SYMBOL == "X"

Rows == 0 .. (NumRows - 1)

\* A trading calendar with a two-day gap after every third session.
Calendar == [r \in Rows |-> 1 + r + 2 * (r \div 3)]

(***************************************************************************)
(* Backtester.run: the symbol of the entry rule and the rows it selects.   *)
(***************************************************************************)

\* str.upper on the symbols of the model.
Upper(sym) == IF sym = "x" THEN "X" ELSE sym

\* symbol = (entry_rule.get("symbol") or "").upper(); a missing or None
\* symbol is the empty string.
SymbolOf(s) == Upper(s.symbol)

\* "if not symbol"
NoSymbol(s) == SymbolOf(s) = ""

\* Variant: the selection never found empty.
DfEmptyNever(s) == FALSE

\* df = self.data[self.data["symbol"].str.upper() == symbol]; "if df.empty".
\* self.data holds rows of SYMBOL only.
DfEmpty(s) == SymbolOf(s) # Upper(SYMBOL)

(***************************************************************************)
(* SignalEngine: Series.pct_change(periods) and the signal columns.        *)
(***************************************************************************)

\* Variant: the change measured over one row less than periods.
ChangeLEShort(cl, periods, r, thr) ==
    /\ r \in DOMAIN cl /\ (r - periods + 1) \in DOMAIN cl
    /\ (cl[r] - cl[r - periods + 1]) * 100 <= thr * cl[r - periods + 1]

\* pct_change(periods)[r] is NaN unless row r - periods exists.
HasChange(cl, periods, r) == r \in DOMAIN cl /\ (r - periods) \in DOMAIN cl

\* Variant: on the first rows the change is measured from the first row.
ChangeLEFromFirst(cl, periods, r, thr) ==
    /\ r \in DOMAIN cl
    /\ LET b == IF (r - periods) \in DOMAIN cl THEN r - periods ELSE 0
       IN b \in DOMAIN cl /\ (cl[r] - cl[b]) * 100 <= thr * cl[b]

\* pct_change(periods)[r] <= thr/100 ; False on NaN.
ChangeLE(cl, periods, r, thr) ==
    /\ HasChange(cl, periods, r)
    /\ (cl[r] - cl[r - periods]) * 100 <= thr * cl[r - periods]

\* pct_change(periods)[r] >= thr/100 ; False on NaN.
ChangeGE(cl, periods, r, thr) ==
    /\ HasChange(cl, periods, r)
    /\ (cl[r] - cl[r - periods]) * 100 >= thr * cl[r - periods]

\* df["entry_signal"]
entry_signal(cl, s, r) ==
    IF s.e_dir = "down" THEN ChangeLE(cl, s.e_period, r, - s.e_thr)
    ELSE IF s.e_dir = "up" THEN ChangeGE(cl, s.e_period, r, s.e_thr)
    ELSE FALSE

\* Variant: the exit condition with its default values used also when the
\* strategy has no exit rule.
base_exit_defaulted(cl, s, r) ==
    IF s.x_dir = "down" THEN ChangeLE(cl, s.x_period, r, - s.x_thr)
    ELSE IF s.x_dir = "up" THEN ChangeGE(cl, s.x_period, r, s.x_thr)
    ELSE FALSE

\* base_exit
base_exit(cl, s, r) ==
    /\ s.has_exit
    /\ IF s.x_dir = "down" THEN ChangeLE(cl, s.x_period, r, - s.x_thr)
       ELSE IF s.x_dir = "up" THEN ChangeGE(cl, s.x_period, r, s.x_thr)
       ELSE FALSE

\* df["exit_reason_sl"]
sl_exit(cl, s, r) ==
    /\ s.has_exit
    /\ s.stop_loss # None
    /\ ChangeLE(cl, s.x_period, r, - s.stop_loss[1])

\* df["exit_reason_tp"]
tp_exit(cl, s, r) ==
    /\ s.has_exit
    /\ s.take_profit # None
    /\ ChangeGE(cl, s.x_period, r, s.take_profit[1])

\* df["exit_signal"]
exit_signal(cl, s, r) == base_exit(cl, s, r) \/ sl_exit(cl, s, r) \/ tp_exit(cl, s, r)

(***************************************************************************)
(* Backtester.run: one iteration of the simulation loop.                   *)
(***************************************************************************)

\* Variant: the entry test without the flat check.
ShouldOpenStacking(pos, sig) == sig

\* "if position == 0 and df.iloc[i]['entry_signal']"
ShouldOpen(pos, sig) == pos = 0 /\ sig

\* Variant: "if" in place of "elif", the exit test also runs on the entry row.
ShouldCloseSameRow(pos, opened, sig) == pos # 0 /\ sig

\* "elif position != 0: if df.iloc[i]['exit_signal']"; opened tells that the
\* "if" branch was taken on this row, pos is the position after that branch.
ShouldClose(pos, opened, sig) == ~ opened /\ pos # 0 /\ sig

\* Variant: short for sell only, long for every other action.
SideOfSellOnly(action) == IF action = "sell" THEN -1 ELSE 1

\* side = 1 if entry_rule["action"] == "buy" else -1
SideOf(action) == IF action = "buy" THEN 1 ELSE -1

\* Variant: stop-loss tested before take-profit.
ExitReasonStopFirst(tp, sl) ==
    IF sl THEN "stop_loss" ELSE IF tp THEN "take_profit" ELSE "rule_exit"

\* reason = "rule_exit" / "take_profit" / "stop_loss"
ExitReason(tp, sl) ==
    IF tp THEN "take_profit" ELSE IF sl THEN "stop_loss" ELSE "rule_exit"

\* Variant: the new row is put in front of the rows already recorded.
insert_first(lst, row) == <<row>> \o lst

\* ledger.append(row) / trades.append(row)
append(lst, row) == Append(lst, row)

\* Variant: the return computed as for a long position whatever the side.
TradeRowUnsigned(st, price, date, reason) ==
    [symbol       |-> SYMBOL,
     side         |-> IF st.side = 1 THEN "long" ELSE "short",
     entry_date   |-> st.entry_date[1],
     entry_price  |-> st.entry_price[1],
     exit_date    |-> date,
     exit_price   |-> price,
     return       |-> [num |-> price - st.entry_price[1],
                       den |-> st.entry_price[1]],
     holding_days |-> date - st.entry_date[1],
     exit_reason  |-> reason]

\* The dict appended to the ledger.  "return" is the fraction num/den.
TradeRow(st, price, date, reason) ==
    [symbol       |-> SYMBOL,
     side         |-> IF st.side = 1 THEN "long" ELSE "short",
     entry_date   |-> st.entry_date[1],
     entry_price  |-> st.entry_price[1],
     exit_date    |-> date,
     exit_price   |-> price,
     return       |-> [num |-> (price - st.entry_price[1]) * st.side,
                       den |-> st.entry_price[1]],
     holding_days |-> date - st.entry_date[1],
     exit_reason  |-> reason]

\* Variant: a row that closes a position opens a new one when its entry
\* signal is true.
BTDayReopening(st, cl, dt, s, r) ==
    LET price  == cl[r]
        date   == dt[r]
        opened == ShouldOpen(st.position, entry_signal(cl, s, r))
        st1    == IF opened THEN
                      [st EXCEPT !.side = SideOf(s.action),
                                 !.position = SideOf(s.action),
                                 !.entry_idx = Some(r),
                                 !.entry_price = Some(price),
                                 !.entry_date = Some(date)]
                  ELSE st
        closed == ShouldClose(st1.position, opened, exit_signal(cl, s, r))
        reason == ExitReason(tp_exit(cl, s, r), sl_exit(cl, s, r))
        new    == IF closed THEN
                      [st1 EXCEPT !.ledger = append(@, TradeRow(st1, price, date, reason)),
                                  !.position = IF entry_signal(cl, s, r)
                                               THEN SideOf(s.action) ELSE 0,
                                  !.entry_idx = IF entry_signal(cl, s, r)
                                                THEN Some(r) ELSE None,
                                  !.entry_price = IF entry_signal(cl, s, r)
                                                  THEN Some(price) ELSE None,
                                  !.entry_date = IF entry_signal(cl, s, r)
                                                 THEN Some(date) ELSE None,
                                  !.side = IF entry_signal(cl, s, r)
                                           THEN SideOf(s.action) ELSE 0]
                  ELSE st1
    IN [new EXCEPT !.positions = Append(@, new.position)]

\* The loop body for row r, as a function of the loop state st.
BTDay(st, cl, dt, s, r) ==
    LET price  == cl[r]
        date   == dt[r]
        opened == ShouldOpen(st.position, entry_signal(cl, s, r))
        st1    == IF opened THEN
                      [st EXCEPT !.side = SideOf(s.action),
                                 !.position = SideOf(s.action),
                                 !.entry_idx = Some(r),
                                 !.entry_price = Some(price),
                                 !.entry_date = Some(date)]
                  ELSE st
        closed == ShouldClose(st1.position, opened, exit_signal(cl, s, r))
        reason == ExitReason(tp_exit(cl, s, r), sl_exit(cl, s, r))
        new    == IF closed THEN
                      [st1 EXCEPT !.ledger = append(@, TradeRow(st1, price, date, reason)),
                                  !.position = 0,
                                  !.entry_idx = None,
                                  !.entry_price = None,
                                  !.entry_date = None,
                                  !.side = 0]
                  ELSE st1
    IN [new EXCEPT !.positions = Append(@, new.position)]

\* State before the loop (lines 125-131).
BTStart ==
    [position |-> 0, positions |-> <<>>, ledger |-> <<>>, entry_idx |-> None,
     entry_price |-> None, entry_date |-> None, side |-> 0]

\* The loop state held in the variables.
BTState ==
    [position |-> position, positions |-> bt_positions, ledger |-> ledger,
     entry_idx |-> entry_idx, entry_price |-> entry_price,
     entry_date |-> entry_date, side |-> side]

(***************************************************************************)
(* Backtester.run: the return and equity columns built after the loop.     *)
(***************************************************************************)
RECURSIVE Gcd(_, _)
Gcd(a, b) == IF b = 0 THEN a ELSE Gcd(b, a % b)

\* A fraction in lowest terms (positive denominator).
Frac(n, m) ==
    LET g == Gcd(IF n < 0 THEN -n ELSE n, m)
    IN [num |-> n \div g, den |-> m \div g]

FracMul(x, y) == Frac(x.num * y.num, x.den * y.den)

\* Variant: the change of a row times the position held when that row ended.
ReturnFactorSameRow(cl, ps, r) ==
    IF r = 0 THEN Frac(1, 1)
    ELSE Frac(cl[r - 1] + ps[r + 1] * (cl[r] - cl[r - 1]), cl[r - 1])

\* 1 + df["return"].fillna(0) at row r:
\* df["close"].pct_change() * df["position"].shift(1), NaN counted as 0.
\* ps is the list "positions": ps[r] (1-indexed) is the position appended on
\* row r - 1, which is df["position"].shift(1) at row r.
ReturnFactor(cl, ps, r) ==
    IF r = 0 THEN Frac(1, 1)
    ELSE Frac(cl[r - 1] + ps[r] * (cl[r] - cl[r - 1]), cl[r - 1])

\* df["equity"] = (1 + df["return"].fillna(0)).cumprod(), rows 0 .. n-1.
RECURSIVE EquityTo(_, _, _)
EquityTo(cl, ps, n) ==
    IF n = 0 THEN <<>>
    ELSE LET prev == EquityTo(cl, ps, n - 1)
             last == IF n = 1 THEN Frac(1, 1) ELSE prev[n - 1]
         IN Append(prev, FracMul(last, ReturnFactor(cl, ps, n - 1)))

(***************************************************************************)
(* Backtester.run: inputs and actions.                                     *)
(***************************************************************************)
EntryRules ==
    [action : {"buy", "sell"}, e_period : {1, 3}, e_thr : {5},
     e_dir : {"down", "up", "sideways"}]

\* stop_loss and take_profit: both absent, both 0, both 5 percent.
StopTakePairs == {<<None, None>>, <<Some(0), Some(0)>>, <<Some(5), Some(5)>>}

ExitRules ==
    {[has_exit |-> TRUE, x_period |-> xp, x_thr |-> 3, x_dir |-> xd,
      stop_loss |-> st[1], take_profit |-> st[2]] :
        xp \in {1, 3}, xd \in {"up", "down", "sideways"}, st \in StopTakePairs}

\* exit_rule = None
NoExit ==
    [has_exit |-> FALSE, x_period |-> 3, x_thr |-> 3, x_dir |-> "up",
     stop_loss |-> None, take_profit |-> None]

DefaultEntries ==
    {e \in EntryRules : e.action = "buy" /\ e.e_dir = "down" /\ e.e_period = 1}
PlainExits ==
    {x \in ExitRules : x.x_dir = "up" /\ x.x_period = 3
                       /\ x.stop_loss = None /\ x.take_profit = None}

Merge(e, x) ==
    [symbol |-> SYMBOL,
     action |-> e.action, e_period |-> e.e_period, e_thr |-> e.e_thr,
     e_dir |-> e.e_dir, has_exit |-> x.has_exit, x_period |-> x.x_period,
     x_thr |-> x.x_thr, x_dir |-> x.x_dir, stop_loss |-> x.stop_loss,
     take_profit |-> x.take_profit]

\* The plain strategy with another symbol (lower case, missing, not in the
\* data) or with an action that is neither buy nor sell, and the plain sell
\* entry with no exit rule.
OddStrategies ==
    {[s EXCEPT !.symbol = y] :
        s \in {Merge(e, x) : e \in DefaultEntries, x \in PlainExits},
        y \in {"x", "", "Y"}}
    \cup {[s EXCEPT !.action = "hold"] :
             s \in {Merge(e, x) : e \in DefaultEntries, x \in PlainExits}}
    \cup {[Merge(e, NoExit) EXCEPT !.action = "sell"] : e \in DefaultEntries}

\* Every entry rule with a plain exit, a plain entry with every exit rule and
\* with no exit rule, and the odd strategies.
Strategies ==
    {Merge(e, x) : e \in EntryRules, x \in PlainExits}
    \cup {Merge(e, x) : e \in DefaultEntries, x \in ExitRules \cup {NoExit}}
    \cup OddStrategies

BTIdle ==
    /\ closes = <<>> /\ dates = <<>> /\ strategy = <<>> /\ i = 0
    /\ position = 0 /\ side = 0 /\ entry_idx = None /\ entry_price = None
    /\ entry_date = None /\ ledger = <<>> /\ bt_positions = <<>>
    /\ bt_equity = <<>>

PFIdle ==
    /\ panel = <<>> /\ params = <<>> /\ d = 0 /\ cash = 0
    /\ positions = <<>> /\ trades = <<>> /\ equity_curve = <<>>
    /\ todo = <<>>

RGIdle == rg_trades = None /\ metrics = None

\* A call of Backtester.run: the data and the strategy argument; the locals of
\* the simulation are not assigned yet.
InitBT ==
    /\ pc = "start"
    /\ closes \in [Rows -> Prices]
    /\ dates = Calendar
    /\ strategy \in Strategies
    /\ i = 0
    /\ position = 0 /\ side = 0 /\ entry_idx = None /\ entry_price = None
    /\ entry_date = None /\ ledger = <<>> /\ bt_positions = <<>>
    /\ bt_equity = <<>>
    /\ PFIdle /\ RGIdle

\* raise ValueError("No symbol specified for backtest.")
RaiseNoSymbol ==
    /\ pc = "start"
    /\ NoSymbol(strategy)
    /\ pc' = "error_no_symbol"
    /\ UNCHANGED <<bt_vars, pf_vars, rg_vars>>

\* raise ValueError("No data found for symbol ...")
RaiseNoData ==
    /\ pc = "start"
    /\ ~ NoSymbol(strategy)
    /\ DfEmpty(strategy)
    /\ pc' = "error_no_data"
    /\ UNCHANGED <<bt_vars, pf_vars, rg_vars>>

\* Both checks pass: the signal columns are built and the locals of the
\* simulation take their start values.
StartRun ==
    /\ pc = "start"
    /\ ~ NoSymbol(strategy)
    /\ ~ DfEmpty(strategy)
    /\ pc' = "run"
    /\ position' = BTStart.position
    /\ side' = BTStart.side
    /\ entry_idx' = BTStart.entry_idx
    /\ entry_price' = BTStart.entry_price
    /\ entry_date' = BTStart.entry_date
    /\ ledger' = BTStart.ledger
    /\ bt_positions' = BTStart.positions
    /\ UNCHANGED <<closes, dates, strategy, i, bt_equity, pf_vars, rg_vars>>

\* Store the loop state st and advance the loop index.
BTApply(st) ==
    /\ position' = st.position
    /\ side' = st.side
    /\ entry_idx' = st.entry_idx
    /\ entry_price' = st.entry_price
    /\ entry_date' = st.entry_date
    /\ ledger' = st.ledger
    /\ bt_positions' = st.positions
    /\ i' = i + 1
    /\ UNCHANGED <<pc, closes, dates, strategy, bt_equity, pf_vars, rg_vars>>

InLoop == pc = "run" /\ i < NumRows

\* A row on which the loop opens a position.
OpenPosition ==
    /\ InLoop
    /\ ShouldOpen(position, entry_signal(closes, strategy, i))
    /\ BTApply(BTDay(BTState, closes, dates, strategy, i))

\* A row on which the loop closes the open position.
ClosePosition ==
    /\ InLoop
    /\ ~ ShouldOpen(position, entry_signal(closes, strategy, i))
    /\ ShouldClose(position, FALSE, exit_signal(closes, strategy, i))
    /\ BTApply(BTDay(BTState, closes, dates, strategy, i))

\* A row on which the loop changes nothing but the positions list.
HoldDay ==
    /\ InLoop
    /\ ~ ShouldOpen(position, entry_signal(closes, strategy, i))
    /\ ~ ShouldClose(position, FALSE, exit_signal(closes, strategy, i))
    /\ BTApply(BTDay(BTState, closes, dates, strategy, i))

\* Variant: a position still open after the last row is closed at that row's
\* close and added to the ledger.
FinishRunClosing ==
    /\ pc = "run" /\ i = NumRows
    /\ bt_equity' = EquityTo(closes, bt_positions, NumRows)
    /\ ledger' = IF position # 0
                 THEN Append(ledger, TradeRow(BTState, closes[NumRows - 1],
                                              dates[NumRows - 1], "end_of_data"))
                 ELSE ledger
    /\ pc' = "done"
    /\ UNCHANGED <<closes, dates, strategy, i, position, side, entry_idx,
                   entry_price, entry_date, bt_positions, pf_vars, rg_vars>>

\* After the loop: the position, return and equity columns.
FinishRun ==
    /\ pc = "run" /\ i = NumRows
    /\ bt_equity' = EquityTo(closes, bt_positions, NumRows)
    /\ pc' = "done"
    /\ UNCHANGED <<closes, dates, strategy, i, position, side, entry_idx,
                   entry_price, entry_date, ledger, bt_positions, pf_vars, rg_vars>>

NextBT ==
    \/ RaiseNoSymbol \/ RaiseNoData \/ StartRun
    \/ OpenPosition \/ ClosePosition \/ HoldDay \/ FinishRun

SpecBT == InitBT /\ [][NextBT]_vars

(***************************************************************************)
(* PortfolioBacktester: inputs.                                            *)
(***************************************************************************)
NumDates == 3       \* unique dates of the sector panel
MaxEdits == 1       \* departures of the panel from its pattern

starting_capital == 100000

\* symbols = sorted(df["symbol"].unique()); rows of a date come in this order.
SymbolList == <<"A", "B", "C">>
Symbols == {SymbolList[k] : k \in DOMAIN SymbolList}

\* The two price levels of the panel.  Both divide starting_capital * f.
Level == [base |-> 100, low |-> 80]
Other(x) == IF x = Level.base THEN Level.low ELSE Level.base

\* The price pattern a panel repeats on every row: flat sessions, or sessions
\* that open low and close back at the base level.
BasePatterns ==
    {[open |-> Level.base, close |-> Level.base],
     [open |-> Level.low, close |-> Level.base]}

DateIdx == 0 .. (NumDates - 1)

\* A departure from the pattern: the open or the close of a row at the other
\* level, or the row missing.
Edits == Symbols \X DateIdx \X {"open", "close", "gap"}

RECURSIVE SubsetsUpTo(_, _)
SubsetsUpTo(S, k) ==
    IF k = 0 THEN {{}}
    ELSE LET smaller == SubsetsUpTo(S, k - 1)
         IN smaller \cup {T \cup {x} : T \in smaller, x \in S}

\* The panel that follows pattern b except for the departures E.
MakePanel(b, E) ==
    [s \in Symbols |->
        [t \in DateIdx |->
            IF <<s, t, "gap">> \in E THEN None
            ELSE Some([open  |-> IF <<s, t, "open">> \in E
                                 THEN Other(b.open) ELSE b.open,
                       close |-> IF <<s, t, "close">> \in E
                                 THEN Other(b.close) ELSE b.close])]]

\* "sub.empty" is the negation of HasRow.
HasRow(p, s, t) == t \in DOMAIN p[s] /\ p[s][t] # None
RowOf(p, s, t) == p[s][t][1]

\* dates = sorted(df["date"].unique()): every date of the panel has a row.
Panels ==
    {p \in {MakePanel(b, E) : b \in BasePatterns,
                              E \in SubsetsUpTo(Edits, MaxEdits)} :
        \A t \in DateIdx : \E s \in Symbols : HasRow(p, s, t)}

\* take_profit and stop_loss: an ordinary pair, and a pair whose take-profit
\* level lies below its stop-loss level.
ExitPairs == {<<20, 10>>, <<-25, 10>>}

\* drop_pct and lookback_days.
EntryPairs == {<<0, 1>>, <<10, 2>>}

\* The sector of the rows of the panel, as written in self.data.
SECTOR == "Tech"

\* str.lower on the sector names of the model.
Lower(name) == IF name \in {"Tech", "TECH"} THEN "tech" ELSE name

\* df = self.data[self.data["sector"].str.lower() == sector_name.lower()];
\* "if df.empty".  self.data holds rows of SECTOR only.
SectorEmpty(prm) == Lower(SECTOR) # Lower(prm.sector_name)

PlainParamSets ==
    {[sector_name |-> "tech",
      drop_pct |-> e[1], lookback_days |-> e[2], allocation_per_trade |-> f,
      take_profit |-> x[1], stop_loss |-> x[2]] :
        e \in EntryPairs, f \in {40, 50, 100}, x \in ExitPairs}

\* A parameter set with the sector in upper case, and with a sector that has
\* no rows.
OddParamSets ==
    {[prm EXCEPT !.sector_name = y] :
        prm \in {q \in PlainParamSets :
                    /\ q.allocation_per_trade = 50 /\ q.drop_pct = 0
                    /\ q.take_profit = 20},
        y \in {"TECH", "energy"}}

ParamSets == PlainParamSets \cup OddParamSets

(***************************************************************************)
(* PortfolioBacktester.run_sector_strategy: trailing high and candidates.  *)
(***************************************************************************)
SetMax(S) == CHOOSE x \in S : \A y \in S : y <= x

\* Variant: today's row counted among the rows of the window.
PriorRowsWithToday(p, s, t) == {u \in DOMAIN p[s] : u <= t /\ p[s][u] # None}

\* Date indexes of the rows of symbol s before date t.
PriorRows(p, s, t) == {u \in DOMAIN p[s] : u < t /\ p[s][u] # None}

\* The rows x.shift(1).rolling(lookback, min_periods=1) sees at date t:
\* the last lookback rows of the symbol before t.
Window(p, s, t, lookback) ==
    {u \in PriorRows(p, s, t) :
        Cardinality({v \in PriorRows(p, s, t) : v > u}) < lookback}

\* Variant: with no earlier row the window falls back to the row of the date.
trailing_high_backfilled(p, s, t, lookback) ==
    IF Window(p, s, t, lookback) = {}
    THEN (IF HasRow(p, s, t) THEN Some(RowOf(p, s, t).close) ELSE None)
    ELSE Some(SetMax({RowOf(p, s, u).close : u \in Window(p, s, t, lookback)}))

\* df["trailing_high"]: None stands for NaN.
trailing_high(p, s, t, lookback) ==
    IF Window(p, s, t, lookback) = {} THEN None
    ELSE Some(SetMax({RowOf(p, s, u).close : u \in Window(p, s, t, lookback)}))

\* df["drop_from_high"] <= -drop_pct ; False on NaN.
DropSignal(p, prm, s, t) ==
    /\ HasRow(p, s, t)
    /\ trailing_high(p, s, t, prm.lookback_days) # None
    /\ LET th == trailing_high(p, s, t, prm.lookback_days)[1]
       IN (RowOf(p, s, t).open - th) * 100 <= - prm.drop_pct * th

\* Symbols held, in insertion order.
Held(ps) == {ps[k].symbol : k \in DOMAIN ps}

\* Variant: the held symbols are not filtered out.
CandidatesWithHeld(p, prm, ps, t) ==
    SelectSeq(SymbolList, LAMBDA s : DropSignal(p, prm, s, t))

\* candidates: rows of the day with the drop signal whose symbol is not held.
Candidates(p, prm, ps, t) ==
    SelectSeq(SymbolList, LAMBDA s : DropSignal(p, prm, s, t) /\ s \notin Held(ps))

\* Variant: the last n rows (DataFrame.tail) in place of the first n.
tail(sq, n) == SubSeq(sq, (IF n < Len(sq) THEN Len(sq) - n ELSE 0) + 1, Len(sq))

\* DataFrame.head(n)
head(sq, n) == SubSeq(sq, 1, IF n < Len(sq) THEN n ELSE Len(sq))

\* Variant: the quotient rounded up.
MaxNewCeil(open_trades, f) == (100 - open_trades * f + f - 1) \div f

\* max_new = int(available_fraction // allocation_per_trade)
MaxNew(open_trades, f) == (100 - open_trades * f) \div f

\* "if open_trades * allocation_per_trade < 1.0"
HasFreeFraction(open_trades, f) == open_trades * f < 100

(***************************************************************************)
(* PortfolioBacktester.run_sector_strategy: the phases of one date.        *)
(* The loop state st is [cash, positions, trades, equity_curve].           *)
(***************************************************************************)

\* Variant: stop_loss tested before take_profit.
PFExitReasonStopFirst(price, entry, prm) ==
    IF (price - entry) * 100 <= - prm.stop_loss * entry THEN "stop_loss"
    ELSE IF (price - entry) * 100 >= prm.take_profit * entry THEN "take_profit"
    ELSE "open"

\* Variant: the stop_loss test left out.
PFExitReasonTargetOnly(price, entry, prm) ==
    IF (price - entry) * 100 >= prm.take_profit * entry THEN "take_profit"
    ELSE "open"

\* take_profit is tested first, then stop_loss; "open" stands for "continue".
PFExitReason(price, entry, prm) ==
    IF (price - entry) * 100 >= prm.take_profit * entry THEN "take_profit"
    ELSE IF (price - entry) * 100 <= - prm.stop_loss * entry THEN "stop_loss"
    ELSE "open"

\* The dict appended to trades.  "return" is the fraction num/den.
PFTradeRow(pos, price, t, reason) ==
    [symbol      |-> pos.symbol,
     entry_date  |-> pos.entry_date,
     exit_date   |-> t,
     entry_price |-> pos.entry_price,
     exit_price  |-> price,
     return      |-> [num |-> price - pos.entry_price, den |-> pos.entry_price],
     exit_reason |-> reason]

\* Variant: a position without a row on the date is dropped.
ExitOneDropMissing(st, pos, p, prm, t) ==
    IF ~ HasRow(p, pos.symbol, t)
    THEN [st EXCEPT !.positions = SelectSeq(@, LAMBDA q : q.symbol # pos.symbol)]
    ELSE LET price  == RowOf(p, pos.symbol, t).close
             reason == PFExitReason(price, pos.entry_price, prm)
         IN IF reason = "open" THEN st
            ELSE [st EXCEPT
                     !.cash = @ + price * pos.shares,
                     !.trades = append(@, PFTradeRow(pos, price, t, reason)),
                     !.positions = SelectSeq(@, LAMBDA q : q.symbol # pos.symbol)]

\* One iteration of "for sym in list(positions.keys())" for the position pos.
ExitOne(st, pos, p, prm, t) ==
    IF ~ HasRow(p, pos.symbol, t) THEN st
    ELSE LET price  == RowOf(p, pos.symbol, t).close
             reason == PFExitReason(price, pos.entry_price, prm)
         IN IF reason = "open" THEN st
            ELSE [st EXCEPT
                     !.cash = @ + price * pos.shares,
                     !.trades = append(@, PFTradeRow(pos, price, t, reason)),
                     !.positions = SelectSeq(@, LAMBDA q : q.symbol # pos.symbol)]

\* Variant: the exit loop not run before the entry block.
ExitLoopSkipped(keys, k, st, p, prm, t) == st

\* The exit loop over the snapshot keys, from its k-th element on.
RECURSIVE ExitLoop(_, _, _, _, _, _)
ExitLoop(keys, k, st, p, prm, t) ==
    IF k > Len(keys) THEN st
    ELSE ExitLoop(keys, k + 1, ExitOne(st, keys[k], p, prm, t), p, prm, t)

ExitPhase(st, p, prm, t) == ExitLoop(st.positions, 1, st, p, prm, t)

\* candidates.head(max_new), or nothing when the guards of the entry block fail.
EntryRows(st, p, prm, t) ==
    LET open_trades == Len(st.positions)
        candidates  == Candidates(p, prm, st.positions, t)
    IN IF HasFreeFraction(open_trades, prm.allocation_per_trade)
          /\ candidates # <<>>
       THEN head(candidates, MaxNew(open_trades, prm.allocation_per_trade))
       ELSE <<>>

\* invest_amt = self.starting_capital * allocation_per_trade
InvestAmt(prm) == (starting_capital * prm.allocation_per_trade) \div 100

\* Variant: the cash test left out.
CanAffordAlways(c, prm) == TRUE

\* "if cash < invest_amt: continue"
CanAfford(c, prm) == ~ (c < InvestAmt(prm))

\* Variant: the stake is the fraction f of the cash at hand.
AdmitOneCompounding(st, s, p, prm, t) ==
    IF ~ CanAfford(st.cash, prm) THEN st
    ELSE LET stake == (st.cash * prm.allocation_per_trade) \div 100
         IN [st EXCEPT
                !.cash = @ - stake,
                !.positions = Append(@, [symbol      |-> s,
                                         entry_price |-> RowOf(p, s, t).open,
                                         shares      |-> stake \div RowOf(p, s, t).open,
                                         entry_date  |-> t])]

\* One iteration of the admission loop for the candidate row of symbol s.
AdmitOne(st, s, p, prm, t) ==
    IF ~ CanAfford(st.cash, prm) THEN st
    ELSE [st EXCEPT
             !.cash = @ - InvestAmt(prm),
             !.positions = Append(@, [symbol      |-> s,
                                      entry_price |-> RowOf(p, s, t).open,
                                      shares      |-> InvestAmt(prm) \div RowOf(p, s, t).open,
                                      entry_date  |-> t])]

RECURSIVE AdmitLoop(_, _, _, _, _, _)
AdmitLoop(rows, k, st, p, prm, t) ==
    IF k > Len(rows) THEN st
    ELSE AdmitLoop(rows, k + 1, AdmitOne(st, rows[k], p, prm, t), p, prm, t)

\* mkt_val: shares times today's close over the held symbols with a row today.
RECURSIVE MktVal(_, _, _, _)
MktVal(ps, k, p, t) ==
    IF k > Len(ps) THEN 0
    ELSE (IF HasRow(p, ps[k].symbol, t)
          THEN ps[k].shares * RowOf(p, ps[k].symbol, t).close ELSE 0)
         + MktVal(ps, k + 1, p, t)

\* Variant: a date with no open position adds no equity point.
EquityPhaseActiveOnly(st, p, t) ==
    IF st.positions = <<>> THEN st
    ELSE [st EXCEPT !.equity_curve =
             Append(@, [date |-> t, equity |-> st.cash + MktVal(st.positions, 1, p, t)])]

\* "---- update equity ----": mkt_val and the point appended to equity_curve.
EquityPhase(st, p, t) ==
    [st EXCEPT !.equity_curve =
        Append(@, [date |-> t, equity |-> st.cash + MktVal(st.positions, 1, p, t)])]

\* The whole body of "for date in dates" for date t.
PFDay(st, p, prm, t) ==
    LET st1 == ExitPhase(st, p, prm, t)
        st2 == AdmitLoop(EntryRows(st1, p, prm, t), 1, st1, p, prm, t)
    IN EquityPhase(st2, p, t)

\* State before the loop (lines 73-76).
PFStart ==
    [cash |-> starting_capital, equity_curve |-> <<>>, positions |-> <<>>,
     trades |-> <<>>]

PFState ==
    [cash |-> cash, equity_curve |-> equity_curve, positions |-> positions,
     trades |-> trades]

(***************************************************************************)
(* PortfolioBacktester.run_sector_strategy: actions.                       *)
(***************************************************************************)
\* A call of run_sector_strategy: the data and the arguments; the locals of
\* the simulation are not assigned yet.
InitPF ==
    /\ pc = "sector_start"
    /\ panel \in Panels
    /\ params \in ParamSets
    /\ d = 0
    /\ cash = 0
    /\ positions = <<>>
    /\ trades = <<>>
    /\ equity_curve = <<>>
    /\ todo = <<>>
    /\ BTIdle /\ RGIdle

\* raise ValueError("No data found for sector ...")
RaiseNoSector ==
    /\ pc = "sector_start"
    /\ SectorEmpty(params)
    /\ pc' = "error_no_sector"
    /\ UNCHANGED <<bt_vars, pf_vars, rg_vars>>

\* The check passes: trailing_high and drop_from_high are built and the locals
\* of the simulation take their start values.
StartSector ==
    /\ pc = "sector_start"
    /\ ~ SectorEmpty(params)
    /\ pc' = "exits"
    /\ cash' = PFStart.cash
    /\ positions' = PFStart.positions
    /\ trades' = PFStart.trades
    /\ equity_curve' = PFStart.equity_curve
    /\ UNCHANGED <<panel, params, d, todo, bt_vars, rg_vars>>

PFApply(st) ==
    /\ cash' = st.cash
    /\ positions' = st.positions
    /\ trades' = st.trades
    /\ equity_curve' = st.equity_curve
    /\ UNCHANGED <<panel, params, bt_vars, rg_vars>>

\* "---- exit positions ----": the whole exit loop of date d.
ExitPositions ==
    /\ pc = "exits" /\ d < NumDates
    /\ PFApply(ExitPhase(PFState, panel, params, d))
    /\ pc' = "entries"
    /\ UNCHANGED <<d, todo>>

\* "---- entry conditions ----": the rows the admission loop will iterate.
SelectCandidates ==
    /\ pc = "entries"
    /\ todo' = EntryRows(PFState, panel, params, d)
    /\ pc' = "admit"
    /\ UNCHANGED <<d, cash, positions, trades, equity_curve, panel, params, bt_vars, rg_vars>>

\* An iteration of the admission loop that opens a position.
AdmitCandidate ==
    /\ pc = "admit" /\ todo # <<>>
    /\ CanAfford(cash, params)
    /\ PFApply(AdmitOne(PFState, todo[1], panel, params, d))
    /\ todo' = Tail(todo)
    /\ UNCHANGED <<pc, d>>

\* An iteration of the admission loop that skips the row for lack of cash.
SkipCandidate ==
    /\ pc = "admit" /\ todo # <<>>
    /\ ~ CanAfford(cash, params)
    /\ PFApply(AdmitOne(PFState, todo[1], panel, params, d))
    /\ todo' = Tail(todo)
    /\ UNCHANGED <<pc, d>>

\* "---- update equity ----" and the step to the next date.
UpdateEquity ==
    /\ pc = "admit" /\ todo = <<>>
    /\ PFApply(EquityPhase(PFState, panel, d))
    /\ d' = d + 1
    /\ pc' = "exits"
    /\ UNCHANGED todo

\* After the loop: the result is returned.
FinishSector ==
    /\ pc = "exits" /\ d = NumDates
    /\ pc' = "done"
    /\ UNCHANGED <<bt_vars, pf_vars, rg_vars>>

NextPF ==
    \/ RaiseNoSector \/ StartSector
    \/ ExitPositions \/ SelectCandidates \/ AdmitCandidate \/ SkipCandidate
    \/ UpdateEquity \/ FinishSector

SpecPF == InitPF /\ [][NextPF]_vars

(***************************************************************************)
(* ReportGenerator: __init__ and _extra_metrics_from_trades.               *)
(* A frame is [columns, rows]; a return is held in whole percent; a metric *)
(* is a fraction num/den, with 1/0 for inf and 0/0 for NaN.                *)
(***************************************************************************)
MaxTrades == 2      \* rows of a trade frame handed to the report

ReportReturns == {-6, 0, 3, 10}
ReportHolds == {1, 4}

RECURSIVE SeqsUpTo(_, _)
SeqsUpTo(S, n) ==
    IF n = 0 THEN {<<>>}
    ELSE LET shorter == SeqsUpTo(S, n - 1)
         IN shorter \cup {Append(q, x) : q \in {t \in shorter : Len(t) = n - 1}, x \in S}

\* pd.DataFrame(): no column, no row.
EmptyFrame == [columns |-> {}, rows |-> <<>>]

\* Trade frames: the ledgers of Backtester.run (with holding_days) and of
\* run_sector_strategy (without), and frames without rows, with or without
\* their columns.
Frames ==
    {[columns |-> {"return", "holding_days"}, rows |-> q] :
        q \in SeqsUpTo([return : ReportReturns, holding_days : ReportHolds], MaxTrades)}
    \cup {[columns |-> {"return"}, rows |-> q] :
             q \in SeqsUpTo([return : ReportReturns], MaxTrades)}
    \cup {EmptyFrame}

\* The results dict: without a "trades" key, with trades None, with a frame.
ResultSets ==
    {[symbol |-> SYMBOL]}
    \cup {[symbol |-> SYMBOL, trades |-> t] : t \in {None} \cup {Some(f) : f \in Frames}}

\* self.trades = results.get("trades", pd.DataFrame())
TradesOf(results) ==
    IF "trades" \in DOMAIN results THEN results.trades ELSE Some(EmptyFrame)

Zero == [num |-> 0, den |-> 1]
Inf == [num |-> 1, den |-> 0]
NaN == [num |-> 0, den |-> 0]

FracAdd(x, y) == Frac(x.num * y.den + y.num * x.den, x.den * y.den)
FracDiv(x, y) == Frac(x.num * y.den, x.den * y.num)

RECURSIVE SumReturn(_)
SumReturn(q) == IF q = <<>> THEN 0 ELSE Head(q).return + SumReturn(Tail(q))

\* The k-th smallest holding_days of the rows q.
KthHold(q, k) ==
    CHOOSE v \in {q[j].holding_days : j \in DOMAIN q} :
        /\ Cardinality({j \in DOMAIN q : q[j].holding_days < v}) < k
        /\ Cardinality({j \in DOMAIN q : q[j].holding_days <= v}) >= k

\* Series.median(): NaN for an empty series.
MedianHold(q) ==
    LET n == Len(q)
    IN IF n = 0 THEN NaN
       ELSE IF n % 2 = 1 THEN Frac(KthHold(q, (n + 1) \div 2), 1)
       ELSE Frac(KthHold(q, n \div 2) + KthHold(q, n \div 2 + 1), 2)

\* The dict returned for an empty ledger (lines 16-23).
ZeroMetrics ==
    [raised |-> "none", win_rate |-> Zero, avg_win |-> Zero, avg_loss |-> Zero,
     profit_factor |-> Zero, expectancy |-> Zero, median_hold |-> Zero]

\* self.trades["return"] on a frame without that column.
KeyErrorResult ==
    [raised |-> "KeyError", win_rate |-> NaN, avg_win |-> NaN, avg_loss |-> NaN,
     profit_factor |-> NaN, expectancy |-> NaN, median_hold |-> NaN]

\* Lines 24-43: the metrics computed from the rows of the frame f.
ComputedMetrics(f) ==
    IF "return" \notin f.columns THEN KeyErrorResult
    ELSE
    LET r        == f.rows
        wins     == SelectSeq(r, LAMBDA row : row.return > 0)
        losses   == SelectSeq(r, LAMBDA row : row.return <= 0)
        win_rate == IF Len(r) # 0 THEN Frac(Len(wins), Len(r)) ELSE Zero
        avg_win  == IF Len(wins) # 0
                    THEN Frac(SumReturn(wins), 100 * Len(wins)) ELSE Zero
        avg_loss == IF Len(losses) # 0
                    THEN Frac(SumReturn(losses), 100 * Len(losses)) ELSE Zero
        gross_profit == IF Len(wins) # 0 THEN Frac(SumReturn(wins), 100) ELSE Zero
        gross_loss   == IF Len(losses) # 0 THEN Frac(- SumReturn(losses), 100) ELSE Zero
        profit_factor == IF gross_loss.num > 0 THEN FracDiv(gross_profit, gross_loss)
                         ELSE IF gross_profit.num > 0 THEN Inf ELSE Zero
        expectancy == FracAdd(FracMul(win_rate, avg_win),
                              FracMul(FracAdd(Frac(1, 1),
                                              [num |-> - win_rate.num, den |-> win_rate.den]),
                                      avg_loss))
        median_hold == IF "holding_days" \in f.columns THEN MedianHold(r) ELSE Zero
    IN [raised |-> "none", win_rate |-> win_rate, avg_win |-> avg_win,
        avg_loss |-> avg_loss, profit_factor |-> profit_factor,
        expectancy |-> expectancy, median_hold |-> median_hold]

\* Variant: only a ledger that is None counts as empty.
IsNoneOnly(tr) == tr = None

\* "if self.trades is None or self.trades.empty"
IsEmptyLedger(tr) == IF tr = None THEN TRUE ELSE tr[1].rows = <<>>

\* ReportGenerator._extra_metrics_from_trades
extra_metrics_from_trades(tr) ==
    IF IsEmptyLedger(tr) THEN ZeroMetrics ELSE ComputedMetrics(tr[1])

\* A ReportGenerator after construction.
InitReport ==
    /\ pc = "report"
    /\ rg_trades \in {TradesOf(res) : res \in ResultSets}
    /\ metrics = None
    /\ BTIdle /\ PFIdle

\* A call of _extra_metrics_from_trades that takes the early return.
ReturnZeroMetrics ==
    /\ pc = "report"
    /\ IsEmptyLedger(rg_trades)
    /\ metrics' = Some(extra_metrics_from_trades(rg_trades))
    /\ pc' = "reported"
    /\ UNCHANGED <<rg_trades, bt_vars, pf_vars>>

\* A call of _extra_metrics_from_trades that computes the metrics.
ReturnComputedMetrics ==
    /\ pc = "report"
    /\ ~ IsEmptyLedger(rg_trades)
    /\ metrics' = Some(extra_metrics_from_trades(rg_trades))
    /\ pc' = "reported"
    /\ UNCHANGED <<rg_trades, bt_vars, pf_vars>>

NextReport == ReturnZeroMetrics \/ ReturnComputedMetrics

SpecReport == InitReport /\ [][NextReport]_vars

Init == InitBT \/ InitPF \/ InitReport
Next == NextBT \/ NextPF \/ NextReport
Spec == Init /\ [][Next]_vars

(***************************************************************************)
(* Properties.                                                             *)
(***************************************************************************)
InSector == pc \in {"exits", "entries", "admit"}

\* Positions of the portfolio opened before date t / on date t.
HeldBefore(t) == SelectSeq(positions, LAMBDA q : q.entry_date < t)
OpenedOn(t) == SelectSeq(positions, LAMBDA q : q.entry_date = t)

\* C1: in run_sector_strategy the number of open positions times
\* allocation_per_trade never exceeds 1.0 (100 percent), in every state of
\* the run: after every date and after every single admission.
C1_AllocationCap ==
    (InSector \/ (pc = "done" /\ params # <<>>)) =>
        Len(positions) * params.allocation_per_trade <= 100

\* C1 witness: an admission loop has ended with the allocation exhausted while
\* an eligible symbol is left out.
C1_Witness ==
    /\ pc = "admit" /\ todo = <<>>
    /\ OpenedOn(d) # <<>>
    /\ (Len(positions) + 1) * params.allocation_per_trade > 100
    /\ Candidates(panel, params, positions, d) # <<>>

\* C2 (as stated): while a position is open, a row with a true entry signal
\* leaves position, entry_price, entry_date and side as they were.
C2_Original ==
    [][(pc = "run" /\ i < NumRows /\ position # 0
        /\ entry_signal(closes, strategy, i))
       => (position' = position /\ entry_price' = entry_price
           /\ entry_date' = entry_date /\ side' = side)]_vars

\* C2 (amended): while a position is open, a row with a true entry signal opens
\* nothing: either the position stays as it was (same side, entry_price and
\* entry_date), or that row's exit signal closes it, the ledger row carries the
\* entry data it had, and the state is flat with the entry data reset.
C2_NoStacking ==
    [][(pc = "run" /\ i < NumRows /\ position # 0
        /\ entry_signal(closes, strategy, i))
       => \/ /\ position' = position /\ side' = side
             /\ entry_price' = entry_price /\ entry_date' = entry_date
             /\ entry_idx' = entry_idx /\ ledger' = ledger
          \/ /\ exit_signal(closes, strategy, i)
             /\ position' = 0 /\ side' = 0
             /\ entry_price' = None /\ entry_date' = None /\ entry_idx' = None
             /\ Len(ledger') = Len(ledger) + 1
             /\ SubSeq(ledger', 1, Len(ledger)) = ledger
             /\ ledger'[Len(ledger')].entry_price = entry_price[1]
             /\ ledger'[Len(ledger')].entry_date = entry_date[1]
             /\ ledger'[Len(ledger')].side = (IF side = 1 THEN "long" ELSE "short")]_vars

\* C2 witness: a position opened on an earlier row is still open, unchanged,
\* after a row whose entry signal was true.
C2_Witness ==
    /\ pc = "run" /\ i >= 1 /\ position # 0
    /\ entry_idx # None /\ entry_idx[1] < i - 1
    /\ entry_signal(closes, strategy, i - 1)

\* C3: every trade of either ledger has entry_date strictly before exit_date.
C3_EntryBeforeExit ==
    /\ \A k \in DOMAIN ledger : ledger[k].entry_date < ledger[k].exit_date
    /\ \A k \in DOMAIN trades : trades[k].entry_date < trades[k].exit_date

\* C3 witness: a trade closed on the first row (or date) after its entry.
C3_Witness ==
    \/ \E k \in DOMAIN ledger :
          \E r \in Rows : /\ r + 1 \in Rows
                          /\ ledger[k].entry_date = dates[r]
                          /\ ledger[k].exit_date = dates[r + 1]
    \/ \E k \in DOMAIN trades : trades[k].exit_date = trades[k].entry_date + 1

\* ---- replay of a run on a series cut after its first n rows ----
Cut(f, n) == [r \in {x \in DOMAIN f : x < n} |-> f[r]]
CutPanel(p, n) == [s \in DOMAIN p |-> Cut(p[s], n)]

\* The loop state of Backtester.run after the first n rows of cl.
RECURSIVE BTRunTo(_, _, _, _)
BTRunTo(cl, dt, s, n) ==
    IF n = 0 THEN BTStart ELSE BTDay(BTRunTo(cl, dt, s, n - 1), cl, dt, s, n - 1)

\* The loop state of run_sector_strategy after the first n dates of p.
RECURSIVE PFRunTo(_, _, _)
PFRunTo(p, prm, n) ==
    IF n = 0 THEN PFStart ELSE PFDay(PFRunTo(p, prm, n - 1), p, prm, n - 1)

\* The closes of the rows of s that precede date t, latest first up to lookback.
LastPrior(p, s, t, lookback) ==
    {u \in 0 .. (t - 1) :
        /\ p[s][u] # None
        /\ Cardinality({v \in (u + 1) .. (t - 1) : p[s][v] # None}) < lookback}

\* C4: no lookahead.  What either run has decided and recorded after n rows
\* (dates) is what it decides and records on the series cut after those n rows,
\* so two panels that agree up to a day give the same decisions, ledger rows and
\* equity points up to that day; and trailing_high at a date is the largest
\* close among the last lookback_days earlier rows of the symbol, with the
\* close of the date itself (and of later dates) left out.
C4_NoLookahead ==
    /\ pc = "run" =>
          BTState = BTRunTo(Cut(closes, i), Cut(dates, i), strategy, i)
    /\ (pc = "done" /\ closes # <<>>) =>
          \A n \in 1 .. NumRows :
              LET cut == BTRunTo(Cut(closes, n), Cut(dates, n), strategy, n)
              IN /\ SubSeq(ledger, 1, Len(cut.ledger)) = cut.ledger
                 /\ SubSeq(bt_positions, 1, n) = cut.positions
                 /\ SubSeq(bt_equity, 1, n)
                       = EquityTo(Cut(closes, n), cut.positions, n)
    /\ pc = "exits" => PFState = PFRunTo(CutPanel(panel, d), params, d)
    /\ (pc = "exits" /\ d = 0) =>
          \A s \in Symbols : \A t \in DateIdx :
              LET th   == trailing_high(panel, s, t, params.lookback_days)
                  last == LastPrior(panel, s, t, params.lookback_days)
              IN /\ th = trailing_high(CutPanel(panel, t), s, t, params.lookback_days)
                 /\ (last = {}) <=> (th = None)
                 /\ last # {} =>
                       /\ \E u \in last : RowOf(panel, s, u).close = th[1]
                       /\ \A u \in last : RowOf(panel, s, u).close <= th[1]

\* C4 witness: a sector run with dates still to come has taken a decision,
\* and on the date just processed a symbol closed above its trailing high, so
\* that counting the date's own close would have changed the value.
C4_Witness ==
    /\ pc = "exits" /\ d >= 1 /\ d < NumDates
    /\ positions # <<>>
    /\ \E s \in Symbols :
          /\ HasRow(panel, s, d - 1)
          /\ trailing_high(panel, s, d - 1, params.lookback_days) # None
          /\ RowOf(panel, s, d - 1).close
                > trailing_high(panel, s, d - 1, params.lookback_days)[1]

\* The exit sub-conditions of Backtester.run on row r, from the closes.
TakeProfitTrue(r) ==
    /\ strategy.has_exit /\ strategy.take_profit # None
    /\ r >= strategy.x_period
    /\ (closes[r] - closes[r - strategy.x_period]) * 100
          >= strategy.take_profit[1] * closes[r - strategy.x_period]
StopLossTrue(r) ==
    /\ strategy.has_exit /\ strategy.stop_loss # None
    /\ r >= strategy.x_period
    /\ (closes[r] - closes[r - strategy.x_period]) * 100
          <= - strategy.stop_loss[1] * closes[r - strategy.x_period]
RowOfDate(dt) == CHOOSE r \in Rows : dates[r] = dt

\* C5: a trade of Backtester.run closed on a row where the take-profit
\* sub-condition is true is recorded as take_profit; otherwise, where the
\* stop-loss sub-condition is true, as stop_loss; otherwise as rule_exit.
C5_ExitPriority ==
    \A k \in DOMAIN ledger :
        LET r == RowOfDate(ledger[k].exit_date)
        IN ledger[k].exit_reason =
              (IF TakeProfitTrue(r) THEN "take_profit"
               ELSE IF StopLossTrue(r) THEN "stop_loss" ELSE "rule_exit")

\* C5 witness: a trade closed on a row where the take-profit and the stop-loss
\* sub-conditions are both true.
C5_Witness ==
    \E k \in DOMAIN ledger :
        /\ TakeProfitTrue(RowOfDate(ledger[k].exit_date))
        /\ StopLossTrue(RowOfDate(ledger[k].exit_date))

\* C6: a portfolio trade whose return meets both ret >= take_profit and
\* ret <= -stop_loss is recorded as take_profit.
C6_TakeProfitFirst ==
    \A k \in DOMAIN trades :
        LET gain == (trades[k].exit_price - trades[k].entry_price) * 100
        IN (/\ gain >= params.take_profit * trades[k].entry_price
            /\ gain <= - params.stop_loss * trades[k].entry_price)
           => trades[k].exit_reason = "take_profit"

\* C6 witness: a recorded trade with a negative return that meets both tests.
C6_Witness ==
    \E k \in DOMAIN trades :
        LET gain == (trades[k].exit_price - trades[k].entry_price) * 100
        IN /\ gain < 0
           /\ gain >= params.take_profit * trades[k].entry_price
           /\ gain <= - params.stop_loss * trades[k].entry_price

Min(a, b) == IF a < b THEN a ELSE b
SymbolsOf(ps) == [k \in DOMAIN ps |-> ps[k].symbol]

\* The entry block of date d as seen when its admission loop has ended:
\* the candidates and the cap it started from, and the cash it started with.
CandidatesToday == Candidates(panel, params, HeldBefore(d), d)
CapToday ==
    IF HasFreeFraction(Len(HeldBefore(d)), params.allocation_per_trade)
    THEN (100 - Len(HeldBefore(d)) * params.allocation_per_trade)
            \div params.allocation_per_trade
    ELSE 0
CashBeforeEntries ==
    cash + Len(OpenedOn(d)) * ((starting_capital * params.allocation_per_trade) \div 100)
AdmissionEnded == pc = "admit" /\ todo = <<>>

ClosedOn(t) == SelectSeq(trades, LAMBDA tr : tr.exit_date = t)

\* C8: within a date the exits come first.  While the entries of date d are
\* evaluated no position from an earlier date that has a row on d still meets
\* its exit test, the rows selected for admission fit the cap computed from the
\* positions left after the closures, and a position closed on d has released
\* its proceeds and its slot: with a candidate, a free slot and enough cash
\* after the closures, an entry is admitted on d.
C8_ExitsBeforeEntries ==
    /\ pc \in {"entries", "admit"} =>
          \A k \in DOMAIN positions :
              (positions[k].entry_date < d /\ HasRow(panel, positions[k].symbol, d))
              => /\ (RowOf(panel, positions[k].symbol, d).close - positions[k].entry_price) * 100
                       < params.take_profit * positions[k].entry_price
                 /\ (RowOf(panel, positions[k].symbol, d).close - positions[k].entry_price) * 100
                       > - params.stop_loss * positions[k].entry_price
    /\ pc = "admit" => Len(OpenedOn(d)) + Len(todo) <= CapToday
    /\ (AdmissionEnded /\ ClosedOn(d) # <<>> /\ CandidatesToday # <<>>
        /\ CapToday >= 1
        /\ CashBeforeEntries * 100 >= starting_capital * params.allocation_per_trade)
       => OpenedOn(d) # <<>>

\* C8 witness: a date on which a position was closed and another opened, the
\* new one taking a slot that was not free before the closure.
C8_Witness ==
    /\ AdmissionEnded
    /\ ClosedOn(d) # <<>> /\ OpenedOn(d) # <<>>
    /\ (Len(HeldBefore(d)) + Len(ClosedOn(d)) + Len(OpenedOn(d)))
          * params.allocation_per_trade > 100

\* The scenario of C10: closes 100, 100, 94, 94, 103; buy when the 3-day change
\* is <= -5%, exit when the 3-day change is >= 3%, no stop-loss, no take-profit.
C10_Scenario ==
    /\ pc \in {"run", "done"} /\ closes # <<>>
    /\ closes[0] = 100 /\ closes[1] = 100 /\ closes[2] = 94
    /\ closes[3] = 94 /\ closes[4] = 103
    /\ strategy.action = "buy" /\ strategy.e_period = 3 /\ strategy.e_thr = 5
    /\ strategy.e_dir = "down" /\ strategy.has_exit /\ strategy.x_period = 3
    /\ strategy.x_thr = 3 /\ strategy.x_dir = "up"
    /\ strategy.stop_loss = None /\ strategy.take_profit = None

\* C10 (as stated): in the scenario the position is opened on row index 2.
C10_Original ==
    (C10_Scenario /\ i >= 3) => (bt_positions[3] = 1 /\ bt_positions[2] = 0)

\* C10 (amended): in the scenario the position is opened on row index 3, the
\* first row with a defined 3-day change (100 to 94, -6%): it is flat through
\* row 2 and long, entered at 94, after row 3.
C10_EntryOnRow3 ==
    /\ (C10_Scenario /\ i >= 1) =>
          \A r \in 1 .. Min(i, 3) : bt_positions[r] = 0
    /\ (C10_Scenario /\ i >= 4) => bt_positions[4] = 1
    /\ (C10_Scenario /\ i = 4) =>
          (position = 1 /\ entry_idx = Some(3) /\ entry_price = Some(94)
           /\ entry_date = Some(dates[3]))

\* C10 witness: the scenario after row 3, with the position open.
C10_Witness == C10_Scenario /\ i = 4 /\ position = 1 /\ entry_idx = Some(3)

\* ---- C11 ----
\* The position Backtester.run holds when row r starts.
PositionBefore(r) == IF r = 0 THEN 0 ELSE bt_positions[r]

\* Rows before n on which the loop opened a position / found the exit signal
\* true with a position open.
EntryRowsTo(n) ==
    {r \in 0 .. (n - 1) :
        ShouldOpen(PositionBefore(r), entry_signal(closes, strategy, r))}
ExitRowsTo(n) ==
    {r \in 0 .. (n - 1) :
        PositionBefore(r) # 0 /\ exit_signal(closes, strategy, r)}

\* Replay of run_sector_strategy over the first n dates that also counts the
\* positions admitted: [st, admitted].
RECURSIVE PFCountTo(_)
PFCountTo(n) ==
    IF n = 0 THEN [st |-> PFStart, admitted |-> 0]
    ELSE LET prev == PFCountTo(n - 1)
             st1  == ExitPhase(prev.st, panel, params, n - 1)
             st2  == AdmitLoop(EntryRows(st1, panel, params, n - 1), 1, st1,
                               panel, params, n - 1)
         IN [st       |-> EquityPhase(st2, panel, n - 1),
             admitted |-> prev.admitted + Len(st2.positions) - Len(st1.positions)]

AdmittedTo(n) == PFCountTo(n).admitted

\* C11: a position still open when the series ends is not closed and gives no
\* ledger row.  In Backtester.run the ledger rows are exactly the rows on which
\* the exit signal was true with a position open, their number is the number
\* of entries minus one if a position is open, and the open position is not in
\* the ledger; in run_sector_strategy every trade met its exit test on its exit
\* date, the number of trades is the number of admissions minus the number of
\* positions left open, and no open position is in the trades.
C11_OpenAtEndNotInLedger ==
    /\ (pc \in {"run", "done"} /\ closes # <<>>) =>
          /\ Len(ledger) = Cardinality(ExitRowsTo(i))
          /\ {ledger[k].exit_date : k \in DOMAIN ledger}
                = {dates[r] : r \in ExitRowsTo(i)}
          /\ Len(ledger)
                = Cardinality(EntryRowsTo(i)) - (IF position # 0 THEN 1 ELSE 0)
          /\ position # 0 =>
                \A k \in DOMAIN ledger : ledger[k].entry_date # entry_date[1]
    /\ ((pc = "exits" \/ pc = "done") /\ params # <<>>) =>
          /\ \A k \in DOMAIN trades :
                /\ HasRow(panel, trades[k].symbol, trades[k].exit_date)
                /\ trades[k].exit_price
                      = RowOf(panel, trades[k].symbol, trades[k].exit_date).close
                /\ PFExitReason(trades[k].exit_price, trades[k].entry_price, params)
                      # "open"
          /\ Len(trades) = AdmittedTo(d) - Len(positions)
          /\ \A k \in DOMAIN positions : \A j \in DOMAIN trades :
                ~ (/\ trades[j].symbol = positions[k].symbol
                   /\ trades[j].entry_date = positions[k].entry_date)

\* C11 witness: a run of Backtester.run has ended with a position open after
\* an earlier trade was closed and recorded.
C11_Witness ==
    /\ pc = "done" /\ closes # <<>>
    /\ position # 0 /\ ledger # <<>>
    /\ Len(ledger) = Cardinality(EntryRowsTo(NumRows)) - 1

\* ---- C12 ----
\* C12: the first equity point is the starting value.  The first point of the
\* portfolio equity curve is starting_capital at the first date of the panel,
\* and no position is open (and no cash spent) once the first date has been
\* processed; the first value of the equity column of Backtester.run is 1.
C12_FirstEquityPoint ==
    /\ equity_curve # <<>> =>
          (equity_curve[1].date = 0 /\ equity_curve[1].equity = starting_capital)
    /\ ((pc \in {"entries", "admit"} /\ d = 0) \/ (pc = "exits" /\ d = 1)) =>
          (positions = <<>> /\ trades = <<>> /\ cash = starting_capital)
    /\ bt_equity # <<>> => bt_equity[1] = Frac(1, 1)

\* C12 witness: the first date has been processed, it had a row that opened
\* below its close with drop_pct = 0, and the first equity point is the
\* starting capital.
C12_Witness ==
    /\ pc = "exits" /\ d = 1
    /\ params.drop_pct = 0
    /\ \E s \in Symbols :
          /\ HasRow(panel, s, 0)
          /\ RowOf(panel, s, 0).open < RowOf(panel, s, 0).close
    /\ equity_curve[1].equity = starting_capital

\* ---- C13 ----
\* Shares times the close of date t, summed over the positions with index in K.
RECURSIVE HeldValue(_, _)
HeldValue(K, t) ==
    IF K = {} THEN 0
    ELSE LET k == CHOOSE x \in K : TRUE
         IN positions[k].shares * RowOf(panel, positions[k].symbol, t).close
            + HeldValue(K \ {k}, t)

\* C13: the portfolio equity series has one point per date of the panel, in
\* ascending date order, dates without an open position included: after d
\* dates it has d points, the k-th for the k-th date; the point of a date is
\* the cash plus shares times that date's close over the open positions that
\* have a row on the date, so with no open position it is the cash.
C13_EquitySeries ==
    ((InSector \/ pc = "done") /\ params # <<>>) =>
        /\ Len(equity_curve) = d
        /\ \A k \in DOMAIN equity_curve : equity_curve[k].date = k - 1
        /\ pc = "done" =>
              {equity_curve[k].date : k \in DOMAIN equity_curve} = DateIdx
        /\ (pc = "exits" /\ d >= 1) =>
              /\ equity_curve[d].equity
                    = cash + HeldValue({k \in DOMAIN positions :
                                           HasRow(panel, positions[k].symbol, d - 1)},
                                       d - 1)
              /\ positions = <<>> => equity_curve[d].equity = cash

\* C13 witness: a date that ended with no open position after a trade was
\* closed has its equity point, equal to the cash.
C13_Witness ==
    /\ pc = "exits" /\ d >= 2
    /\ positions = <<>> /\ trades # <<>>
    /\ Len(equity_curve) = d
    /\ equity_curve[d].equity = cash
    /\ cash # starting_capital

\* ---- C14 ----
IsPrefix(a, b) == Len(a) <= Len(b) /\ SubSeq(b, 1, Len(a)) = a

MissingToday(k) == ~ HasRow(panel, positions[k].symbol, d)

\* Indexes of the positions that have a row on date d and meet an exit test.
ExitingToday ==
    {k \in DOMAIN positions :
        /\ HasRow(panel, positions[k].symbol, d)
        /\ PFExitReason(RowOf(panel, positions[k].symbol, d).close,
                        positions[k].entry_price, params) # "open"}

\* C15: on a date where a held symbol has no row, every step of the date
\* leaves that position as it was (same entry_price, shares, entry_date) and
\* the run goes on; the exit loop appends no trade for it and moves the cash
\* only by the proceeds of the positions that have a row and meet an exit
\* test; the rows selected for admission fit the allocation left with that
\* position counted.
C15_MissingRowFrame ==
    [][(InSector /\ d < NumDates) =>
          /\ pc' \in {"exits", "entries", "admit"}
          /\ \A k \in DOMAIN positions : MissingToday(k) =>
                /\ \E j \in DOMAIN positions' : positions'[j] = positions[k]
                /\ \A j \in DOMAIN trades' :
                      j > Len(trades) => trades'[j].symbol # positions[k].symbol
          /\ pc = "exits" => cash' = cash + HeldValue(ExitingToday, d)
          /\ pc = "entries" =>
                (Len(positions) + Len(todo')) * params.allocation_per_trade <= 100]_vars

\* C15 witness: the admission loop of a date has ended with a candidate left
\* out while a position opened earlier, without a row on the date, holds a
\* share of the allocation.
C15_Witness ==
    /\ AdmissionEnded
    /\ \E k \in DOMAIN positions :
          positions[k].entry_date < d /\ MissingToday(k)
    /\ Len(CandidatesToday) > Len(OpenedOn(d))
    /\ (Len(positions) + 1) * params.allocation_per_trade > 100

\* ---- C18 ----
\* C18: every ledger row of Backtester.run has entry_price equal to the close
\* of its entry day (the row on which the position went from flat to open),
\* exit_price equal to the close of its exit day, holding_days equal to the
\* calendar days from entry_date to exit_date, and return equal to
\* side * (exit_price / entry_price - 1), side being +1 for a long row and -1
\* for a short row.
C18_LedgerRowFields ==
    \A k \in DOMAIN ledger :
        LET row == ledger[k]
            e   == RowOfDate(row.entry_date)
            x   == RowOfDate(row.exit_date)
            sd  == IF row.side = "long" THEN 1 ELSE -1
        IN /\ row.side \in {"long", "short"}
           /\ PositionBefore(e) = 0 /\ bt_positions[e + 1] = sd
           /\ row.entry_price = closes[e]
           /\ row.exit_price = closes[x]
           /\ row.holding_days = dates[x] - dates[e]
           /\ row.return.den > 0
           /\ row.return.num * row.entry_price
                 = sd * (row.exit_price - row.entry_price) * row.return.den

\* C18 witness: a short trade with a non-zero return, held over a gap of the
\* calendar, so that its holding days exceed the rows it was held.
C18_Witness ==
    \E k \in DOMAIN ledger :
        /\ ledger[k].side = "short"
        /\ ledger[k].return.num # 0
        /\ ledger[k].holding_days
              > RowOfDate(ledger[k].exit_date) - RowOfDate(ledger[k].entry_date)

\* ---- C19 ----
\* ret >= take_profit / ret <= -stop_loss for ret = price / entry - 1.
MeetsTakeProfit(price, entry) == (price - entry) * 100 >= params.take_profit * entry
MeetsStopLoss(price, entry) == (price - entry) * 100 <= - params.stop_loss * entry

\* C19: in run_sector_strategy a position open when date d starts, with a row
\* on d, is closed by the exit loop of d if and only if its return at the
\* close of d meets ret >= take_profit or ret <= -stop_loss; otherwise it
\* stays open as it was.  Every recorded trade has exit_reason take_profit or
\* stop_loss; a take_profit row has return >= take_profit, a stop_loss row has
\* return <= -stop_loss and return < take_profit.
C19_PortfolioExitRule ==
    /\ [](\A k \in DOMAIN trades :
             LET row == trades[k]
             IN /\ row.exit_reason \in {"take_profit", "stop_loss"}
                /\ row.return.den > 0
                /\ row.return.num * row.entry_price
                      = (row.exit_price - row.entry_price) * row.return.den
                /\ row.exit_reason = "take_profit" =>
                      MeetsTakeProfit(row.exit_price, row.entry_price)
                /\ row.exit_reason = "stop_loss" =>
                      /\ MeetsStopLoss(row.exit_price, row.entry_price)
                      /\ ~ MeetsTakeProfit(row.exit_price, row.entry_price))
    /\ [][(pc = "exits" /\ d < NumDates) =>
             \A k \in DOMAIN positions :
                 HasRow(panel, positions[k].symbol, d) =>
                     LET pos   == positions[k]
                         price == RowOf(panel, pos.symbol, d).close
                         added == {j \in DOMAIN trades' :
                                      j > Len(trades) /\ trades'[j].symbol = pos.symbol}
                     IN IF MeetsTakeProfit(price, pos.entry_price)
                           \/ MeetsStopLoss(price, pos.entry_price)
                        THEN /\ pos.symbol \notin Held(positions')
                             /\ Cardinality(added) = 1
                             /\ \A j \in added :
                                   /\ trades'[j].exit_date = d
                                   /\ trades'[j].exit_price = price
                                   /\ trades'[j].entry_price = pos.entry_price
                                   /\ trades'[j].entry_date = pos.entry_date
                        ELSE /\ \E j \in DOMAIN positions' : positions'[j] = pos
                             /\ added = {}]_vars

\* C19 witness: the exit loop of a date has closed one position on a stop_loss
\* and left open another that has a row on the date.
C19_Witness ==
    /\ pc = "entries"
    /\ \E k \in DOMAIN trades :
          trades[k].exit_date = d /\ trades[k].exit_reason = "stop_loss"
    /\ \E k \in DOMAIN positions :
          /\ positions[k].entry_date < d
          /\ HasRow(panel, positions[k].symbol, d)

\* ---- C17 ----
\* The locals of the two simulations hold nothing.
NothingSimulated ==
    /\ i = 0 /\ position = 0 /\ side = 0 /\ entry_idx = None
    /\ entry_price = None /\ entry_date = None /\ ledger = <<>>
    /\ bt_positions = <<>> /\ bt_equity = <<>>
    /\ d = 0 /\ cash = 0 /\ positions = <<>> /\ trades = <<>>
    /\ equity_curve = <<>> /\ todo = <<>>

BadStrategy == strategy # <<>> /\ (strategy.symbol = "" \/ strategy.symbol = "Y")
BadSector == params # <<>> /\ params.sector_name = "energy"

\* C17: input errors fail fast.  A call of Backtester.run whose entry rule has
\* no symbol, or a symbol without rows in the data, and a call of
\* run_sector_strategy for a sector without rows, raise an error as their first
\* step and never simulate a day: no ledger, position or equity state exists
\* in any state of such a call.  No other call raises these errors.
C17_InputErrorsFailFast ==
    /\ [](/\ (BadStrategy \/ BadSector) =>
                /\ pc \in {"start", "sector_start", "error_no_symbol",
                           "error_no_data", "error_no_sector"}
                /\ NothingSimulated
          /\ pc = "error_no_symbol" => (strategy # <<>> /\ strategy.symbol = "")
          /\ pc = "error_no_data" => (strategy # <<>> /\ strategy.symbol = "Y")
          /\ pc = "error_no_sector" => BadSector)
    /\ [][/\ (pc = "start" /\ strategy.symbol = "") => pc' = "error_no_symbol"
          /\ (pc = "start" /\ strategy.symbol = "Y") => pc' = "error_no_data"
          /\ (pc = "sector_start" /\ BadSector) => pc' = "error_no_sector"
          /\ pc \in {"error_no_symbol", "error_no_data", "error_no_sector"}
                => FALSE]_vars

\* C17 witness: Backtester.run has raised for a symbol that has no rows in the
\* data, with nothing simulated.
C17_Witness ==
    /\ pc = "error_no_data"
    /\ strategy.symbol = "Y"
    /\ NothingSimulated

\* ---- C20 ----
\* C20: in Backtester.run a row that starts flat with a true entry signal ends
\* long when the action of the entry rule is buy and short for every other
\* action, with entry_price that row's close and entry_date that row's date;
\* a row that starts flat with a false entry signal ends flat.  Neither
\* touches the ledger.
C20_FlatTransitions ==
    [][(pc = "run" /\ i < NumRows /\ position = 0) =>
          /\ ledger' = ledger
          /\ bt_positions' = Append(bt_positions, position')
          /\ IF entry_signal(closes, strategy, i)
             THEN /\ position' = (IF strategy.action = "buy" THEN 1 ELSE -1)
                  /\ side' = position'
                  /\ entry_price' = Some(closes[i])
                  /\ entry_date' = Some(dates[i])
             ELSE /\ position' = 0 /\ side' = 0
                  /\ entry_price' = None /\ entry_date' = None]_vars

\* C20 witness: a row has just opened a short position for an entry rule whose
\* action is neither buy nor sell.
C20_Witness ==
    /\ pc = "run" /\ i >= 1
    /\ strategy.action = "hold"
    /\ position = -1 /\ side = -1
    /\ entry_idx = Some(i - 1)
    /\ entry_price = Some(closes[i - 1])

\* ---- C16 ----
\* C16: for a trade ledger that is None, absent from the results (the empty
\* frame the constructor puts in its place) or without rows,
\* _extra_metrics_from_trades raises nothing and returns win rate, average
\* win, average loss, profit factor, expectancy and median holding days all 0.
C16_EmptyLedgerMetrics ==
    (pc = "reported" /\ (rg_trades = None \/ rg_trades[1].rows = <<>>)) =>
        /\ metrics # None
        /\ metrics[1].raised = "none"
        /\ metrics[1].win_rate = [num |-> 0, den |-> 1]
        /\ metrics[1].avg_win = [num |-> 0, den |-> 1]
        /\ metrics[1].avg_loss = [num |-> 0, den |-> 1]
        /\ metrics[1].profit_factor = [num |-> 0, den |-> 1]
        /\ metrics[1].expectancy = [num |-> 0, den |-> 1]
        /\ metrics[1].median_hold = [num |-> 0, den |-> 1]

\* C16 witness: the metrics were returned for a frame that has the ledger's
\* columns and no row.
C16_Witness ==
    /\ pc = "reported"
    /\ rg_trades # None
    /\ rg_trades[1].rows = <<>>
    /\ "holding_days" \in rg_trades[1].columns
    /\ metrics # None
    /\ metrics[1].median_hold = [num |-> 0, den |-> 1]

\* ---- C21 ----
\* Rows up to r on which the entry signal is true.
SignalRowsTo(r) == {q \in 0 .. r : entry_signal(closes, strategy, q)}

\* C21: with no exit rule a position of Backtester.run, once opened, is never
\* closed.  In every state of such a run the ledger is empty and at most one
\* entry has happened; the position recorded for a row is 0 while no entry
\* signal has been true up to that row, and the side of the entry rule (+1 for
\* buy, -1 otherwise) on every row from the first true entry signal on.
C21_NoExitRule ==
    (pc \in {"run", "done"} /\ closes # <<>> /\ ~ strategy.has_exit) =>
        /\ ledger = <<>>
        /\ Cardinality(EntryRowsTo(i)) <= 1
        /\ \A r \in 0 .. (i - 1) :
              bt_positions[r + 1] =
                  (IF SignalRowsTo(r) = {} THEN 0
                   ELSE IF strategy.action = "buy" THEN 1 ELSE -1)

\* C21 witness: a run without exit rule has ended short, entered before the
\* last row, with the entry signal true again on a later row.
C21_Witness ==
    /\ pc = "done" /\ closes # <<>> /\ ~ strategy.has_exit
    /\ position = -1 /\ ledger = <<>>
    /\ entry_idx # None
    /\ \E q \in Rows : q > entry_idx[1] /\ entry_signal(closes, strategy, q)

\* ---- C22 ----
\* C22: an undefined change is a false signal and raises nothing.  In
\* Backtester.run the entry signal is false on the rows with index below the
\* entry period and the exit signal on the rows with index below the exit
\* period, so no entry and no exit happens on them; with a direction that is
\* neither up nor down the entry signal (the base exit condition) is false on
\* every row; and a run on a symbol that has rows never ends in an error.
C22_UndefinedChangeIsFalse ==
    /\ (strategy # <<>> /\ ~ BadStrategy) =>
          pc \notin {"error_no_symbol", "error_no_data", "error_no_sector"}
    /\ (pc \in {"run", "done"} /\ closes # <<>>) =>
        /\ \A r \in Rows :
              /\ r < strategy.e_period => ~ entry_signal(closes, strategy, r)
              /\ (strategy.has_exit /\ r < strategy.x_period)
                    => ~ exit_signal(closes, strategy, r)
        /\ \A r \in EntryRowsTo(i) : r >= strategy.e_period
        /\ \A r \in 0 .. (i - 1) : r < strategy.e_period => bt_positions[r + 1] = 0
        /\ \A k \in DOMAIN ledger :
              RowOfDate(ledger[k].exit_date) >= strategy.x_period
        /\ strategy.e_dir \notin {"up", "down"} =>
              /\ \A r \in Rows : ~ entry_signal(closes, strategy, r)
              /\ \A r \in 0 .. (i - 1) : bt_positions[r + 1] = 0
        /\ strategy.x_dir \notin {"up", "down"} =>
              /\ \A r \in Rows : ~ base_exit(closes, strategy, r)
              /\ \A k \in DOMAIN ledger : ledger[k].exit_reason # "rule_exit"

\* C22 witness: with a 3-day entry rule the close fell by the threshold from
\* the first row to the second, no entry happened before row 3, and the
\* position was opened on row 3.
C22_Witness ==
    /\ pc = "run" /\ i = 4
    /\ strategy.e_period = 3 /\ strategy.e_dir = "down"
    /\ (closes[1] - closes[0]) * 100 <= - strategy.e_thr * closes[0]
    /\ entry_idx = Some(3)
    /\ bt_positions = <<0, 0, 0, SideOf(strategy.action)>>

\* ---- C23 ----
\* The equity of row r is the equity of the row before it times
\* 1 + pos * (close[r] / close[r-1] - 1), as fractions in lowest terms.
EquityStep(r, pos) ==
    bt_equity[r + 1]
        = FracMul(bt_equity[r],
                  Frac(closes[r - 1] + pos * (closes[r] - closes[r - 1]),
                       closes[r - 1]))

\* C23: in Backtester.run the return of a row is the close-to-close change of
\* the row times the position held when the row before it ended, and equity is
\* the running product of 1 + return from 1, an undefined return counted as 0.
\* So equity does not move on the first row, on a row that follows a flat row
\* (the entry row of a position among them), and it moves by the full signed
\* change on the exit row of a position.
C23_DailyReturnAndEquity ==
    (pc = "done" /\ closes # <<>>) =>
        /\ Len(bt_equity) = NumRows
        /\ bt_equity[1] = [num |-> 1, den |-> 1]
        /\ \A r \in 1 .. (NumRows - 1) :
              /\ bt_equity[r + 1].den > 0
              /\ EquityStep(r, PositionBefore(r))
              /\ PositionBefore(r) = 0 => bt_equity[r + 1] = bt_equity[r]
        /\ \A k \in DOMAIN ledger :
              LET e  == RowOfDate(ledger[k].entry_date)
                  x  == RowOfDate(ledger[k].exit_date)
                  sd == IF ledger[k].side = "long" THEN 1 ELSE -1
              IN /\ e >= 1 => bt_equity[e + 1] = bt_equity[e]
                 /\ EquityStep(x, sd)

\* C23 witness: a finished run with a trade whose exit row moved the equity
\* and whose entry row, with a different close from the row before, did not.
C23_Witness ==
    /\ pc = "done" /\ closes # <<>>
    /\ \E k \in DOMAIN ledger :
          LET e == RowOfDate(ledger[k].entry_date)
              x == RowOfDate(ledger[k].exit_date)
          IN /\ e >= 1 /\ closes[e] # closes[e - 1]
             /\ bt_equity[e + 1] = bt_equity[e]
             /\ bt_equity[x + 1] # bt_equity[x]

\* ---- C24 ----
\* starting_capital * f, in the units of cash.
FixedStake == (starting_capital * params.allocation_per_trade) \div 100

\* C24: in run_sector_strategy a candidate within the cap of the date is
\* skipped when cash < starting_capital * f, and the skip changes neither the
\* cash nor the positions; a candidate that is not skipped costs exactly
\* starting_capital * f.  Cash is never negative.
C24_CashSkip ==
    /\ [](cash >= 0)
    /\ [][(pc = "admit" /\ todo # <<>>) =>
             /\ todo' = Tail(todo)
             /\ trades' = trades
             /\ IF cash < FixedStake
                THEN cash' = cash /\ positions' = positions
                ELSE /\ cash' = cash - FixedStake
                     /\ Len(positions') = Len(positions) + 1
                     /\ positions'[Len(positions')].symbol = todo[1]]_vars

\* C24 witness: the admission loop of a date has ended with a candidate
\* within the cap left out for lack of cash.
C24_Witness ==
    /\ AdmissionEnded
    /\ Len(OpenedOn(d)) < Min(CapToday, Len(CandidatesToday))
    /\ cash < FixedStake
    /\ cash >= 0

\* ---- C25 ----
\* starting_capital * f times the return of each of the first k trades, summed.
RECURSIVE StakeReturns(_)
StakeReturns(k) ==
    IF k = 0 THEN 0
    ELSE StakeReturns(k - 1)
         + (FixedStake * trades[k].return.num) \div trades[k].return.den

\* C25: portfolio sizing is fixed.  Every open position was bought at the open
\* of its entry date with exactly starting_capital * f, whatever the cash or
\* the equity was, so in every state of the run
\* cash = starting_capital - open_count * starting_capital * f
\*        + starting_capital * f * (sum of the returns of the closed trades).
C25_FixedSizing ==
    ((InSector \/ pc = "done") /\ params # <<>>) =>
        /\ \A k \in DOMAIN positions :
              /\ HasRow(panel, positions[k].symbol, positions[k].entry_date)
              /\ positions[k].entry_price
                    = RowOf(panel, positions[k].symbol, positions[k].entry_date).open
              /\ positions[k].shares * positions[k].entry_price = FixedStake
        /\ \A k \in DOMAIN trades :
              (FixedStake * trades[k].return.num) % trades[k].return.den = 0
        /\ cash = starting_capital - Len(positions) * FixedStake
                     + StakeReturns(Len(trades))

\* C25 witness: after a date, positions are open and the closed trades have a
\* non-zero total return.
C25_Witness ==
    /\ pc = "exits" /\ d >= 1
    /\ Len(positions) >= 1
    /\ trades # <<>>
    /\ StakeReturns(Len(trades)) # 0
    /\ cash = starting_capital - Len(positions) * FixedStake
                 + StakeReturns(Len(trades))

\* ---- C26 ----
\* C26: Backtester.run makes at most one transition per row.  A row that
\* starts with a position open either keeps it or closes it and ends flat,
\* also when its entry signal is true; a row that starts flat appends nothing
\* to the ledger, also when it opens a position and its exit signal is true.
\* Hence each ledger row is entered strictly after the row before it exited.
C26_OneTransitionPerDay ==
    /\ [](\A k \in DOMAIN ledger :
             k > 1 => ledger[k].entry_date > ledger[k - 1].exit_date)
    /\ [][(pc = "run" /\ i < NumRows) =>
             /\ position = 0 => ledger' = ledger
             /\ position # 0 =>
                   \/ /\ position' = position /\ ledger' = ledger
                      /\ entry_date' = entry_date /\ entry_price' = entry_price
                   \/ /\ position' = 0 /\ entry_date' = None
                      /\ Len(ledger') = Len(ledger) + 1]_vars

\* C26 witness: a row has just closed a position while its entry signal was
\* true, and the state is flat.
C26_Witness ==
    /\ pc = "run" /\ i >= 1
    /\ position = 0 /\ ledger # <<>>
    /\ ledger[Len(ledger)].exit_date = dates[i - 1]
    /\ entry_signal(closes, strategy, i - 1)

\* ---- C27 ----
\* C27: in run_sector_strategy an instrument has at most one open position:
\* the open positions have pairwise distinct symbols, no row waiting in the
\* admission loop belongs to a held symbol, and a trade or open position of an
\* instrument is entered no earlier than the exit date of every earlier trade
\* of the same instrument.
C27_OnePositionPerInstrument ==
    (InSector \/ (pc = "done" /\ params # <<>>)) =>
        /\ \A j, k \in DOMAIN positions :
              positions[j].symbol = positions[k].symbol => j = k
        /\ pc = "admit" =>
              \A k \in DOMAIN todo : todo[k] \notin Held(positions)
        /\ \A j, k \in DOMAIN trades :
              (j < k /\ trades[j].symbol = trades[k].symbol)
              => trades[k].entry_date >= trades[j].exit_date
        /\ \A j \in DOMAIN trades : \A k \in DOMAIN positions :
              trades[j].symbol = positions[k].symbol
              => positions[k].entry_date >= trades[j].exit_date

\* C27 witness: the admission loop of a date has ended with a symbol closed
\* and reopened on that date, and with a symbol held from an earlier date
\* whose drop signal is true on the date.
C27_Witness ==
    /\ pc = "admit" /\ todo = <<>>
    /\ \E j \in DOMAIN trades : \E k \in DOMAIN positions :
          /\ trades[j].symbol = positions[k].symbol
          /\ trades[j].exit_date = d /\ positions[k].entry_date = d
    /\ \E k \in DOMAIN positions :
          /\ positions[k].entry_date < d
          /\ DropSignal(panel, params, positions[k].symbol, d)

====
